---- MODULE Spec2Model ----
(***************************************************************************)
(* Luby-transform fountain codec (chrido/fountain): Encoder, Decoder with  *)
(* its peeling routine process_droplet, and the Soliton degree samplers.   *)
(*                                                                         *)
(* Byte vectors are sequences (index i of the source is position i+1).     *)
(* The Rc<RefCell<RxDroplet>> objects live in `heap`, keyed by the number  *)
(* of the catch that created them; block.edges and the worklist hold keys. *)
(* A panic (unwrap on None, index out of bounds, capacity overflow) ends   *)
(* the call with pc = "panicked" and keeps the writes made before it.      *)
(***************************************************************************)
EXTENDS Integers, Sequences, FiniteSets, Bags, TLC

VARIABLES enc, dec, heap, pc, fr, result, cur, pre, fed, hist, sol

vars == <<enc, dec, heap, pc, fr, result, cur, pre, fed, hist, sol>>

----------------------------------------------------------------------------
(* Bounds of the model *)

MaxLen == 3
MaxBlock == 2
MaxSeed == 2
MaxRecv == 3
MaxLoss == 1
MaxFeed == 2
MaxAnyLen == 2
MaxAnyRecv == 3
MaxStepRecv == 3
MaxAnyStepRecv == 2
YGrid == 6
MaxN == 5

(* usize::MAX / u32::MAX, the value a float-to-integer cast saturates to;  *)
(* the model only compares it with small numbers.                          *)
UsizeMax == 2147483647

----------------------------------------------------------------------------
(* Generic helpers *)

Min(a, b) == IF a < b THEN a ELSE b

RECURSIVE BXor(_, _)
BXor(a, b) ==
    IF a = 0 /\ b = 0 THEN 0
    ELSE (((a % 2) + (b % 2)) % 2) + 2 * BXor(a \div 2, b \div 2)

Zeros(n) == [i \in 1..n |-> 0]

Front(s) == SubSeq(s, 1, Len(s) - 1)

Last(s) == s[Len(s)]

SeqSet(s) == {s[i] : i \in 1..Len(s)}

(* iter().position(|x| x == v): 1-based position of the first v, 0 if none *)
Position(s, v) ==
    IF \E i \in 1..Len(s) : s[i] = v
    THEN CHOOSE i \in 1..Len(s) : s[i] = v /\ \A j \in 1..(i - 1) : s[j] # v
    ELSE 0

(* Vec::remove(pos) *)
RemoveAt(s, p) == SubSeq(s, 1, p - 1) \o SubSeq(s, p + 1, Len(s))

----------------------------------------------------------------------------
(* Chunk count: ((len as f32) / blocksize as f32).ceil() as usize.         *)
(* For len < 2^24 the f32 quotient rounds to an integer only when it is    *)
(* one, so the result is the exact ceiling; x/0 is +inf (saturating cast)  *)
(* and 0/0 is NaN (cast to 0).                                             *)
CeilDiv(len, blocksize) ==
    IF blocksize = 0
    THEN (IF len = 0 THEN 0 ELSE UsizeMax)
    ELSE (len + blocksize - 1) \div blocksize

----------------------------------------------------------------------------
(* Soliton samplers.  A uniform draw of gen::<f32>() is y = m / YGrid with *)
(* m in 0..YGrid-1 (the crate draws multiples of 2^-24 in [0, 1)).         *)

(* (1.0 / y).ceil() as usize *)
CeilInv(m) ==
    IF m = 0 THEN UsizeMax ELSE (YGrid + m - 1) \div m

(* variant: no comparison with the limit                                   *)
IdealSolitonNext_NoLimit(k, m) == CeilInv(m)

(* IdealSoliton::next with limit = 1.0 / k: y >= limit iff m * k >= YGrid; *)
(* for k = 0 the limit is +inf and no draw reaches it.                     *)
IdealSolitonNext(k, m) ==
    IF k # 0 /\ m * k >= YGrid THEN CeilInv(m) ELSE 1

(* Soliton::next of lib.rs *)
SolitonNext(n, m) ==
    LET i == CeilInv(m) IN IF i <= n THEN i ELSE 1

----------------------------------------------------------------------------
(* get_sample_from_rng_by_seed: rand::sample is reservoir sampling over    *)
(* 0..n driven by a generator seeded with `seed`.  The generator is a      *)
(* small congruential stand-in for StdRng: deterministic in the seed.      *)

RngNext(s) == (5 * s) % 8

RECURSIVE Reservoir(_, _, _, _, _)
Reservoir(res, s, elem, n, amount) ==
    IF elem >= n THEN res
    ELSE LET s1 == RngNext(s)
             k == s1 % (elem + 1)
         IN Reservoir(IF k < Len(res) THEN [res EXCEPT ![k + 1] = elem] ELSE res,
                      s1, elem + 1, n, amount)

get_sample_from_rng_by_seed(seed, n, degree) ==
    LET taken == Min(n, degree)
        reservoir == [i \in 1..taken |-> i - 1]
    IN IF taken = degree
       THEN Reservoir(reservoir, seed, degree, n, degree)
       ELSE reservoir

----------------------------------------------------------------------------
(* Droplets *)

Seeded(seed, degree) == [tag |-> "Seeded", seed |-> seed, degree |-> degree, edges |-> <<>>]

Edges(list) == [tag |-> "Edges", seed |-> 0, degree |-> 0, edges |-> list]

Droplet(droptype, data) == [droptype |-> droptype, data |-> data]

----------------------------------------------------------------------------
(* Encoder *)

EncoderNew(data, blocksize, encodertype) ==
    [data |-> data, len |-> Len(data), blocksize |-> blocksize,
     cnt_blocks |-> CeilDiv(Len(data), blocksize), cnt |-> 0,
     encodertype |-> encodertype]

(* variant: r[j] = data[i], the chunk overwrites what was accumulated    *)
RECURSIVE XorChunks_Overwrite(_, _, _)
XorChunks_Overwrite(e, r, sample) ==
    IF sample = <<>> THEN r
    ELSE LET k == Head(sample)
             begin == k * e.blocksize
             end == Min((k + 1) * e.blocksize, e.len)
             r1 == [j \in 1..Len(r) |->
                      IF begin + j <= end THEN e.data[begin + j] ELSE r[j]]
         IN XorChunks_Overwrite(e, r1, Tail(sample))

(* r[j] ^= data[i] for i in begin..end, j counting from 0 *)
RECURSIVE XorChunks(_, _, _)
XorChunks(e, r, sample) ==
    IF sample = <<>> THEN r
    ELSE LET k == Head(sample)
             begin == k * e.blocksize
             end == Min((k + 1) * e.blocksize, e.len)
             r1 == [j \in 1..Len(r) |->
                      IF begin + j <= end THEN BXor(r[j], e.data[begin + j]) ELSE r[j]]
         IN XorChunks(e, r1, Tail(sample))

RandomDroplet(e, seed, degree) ==
    Droplet(Seeded(seed, degree),
            XorChunks(e, Zeros(e.blocksize),
                      get_sample_from_rng_by_seed(seed, e.cnt_blocks, degree)))

SystematicDroplet(e) ==
    LET begin == e.cnt * e.blocksize
        end == Min((e.cnt + 1) * e.blocksize, e.len)
    IN Droplet(Edges(<<e.cnt>>),
               [j \in 1..e.blocksize |-> IF begin + j <= end THEN e.data[begin + j] ELSE 0])

(* variant: the encoder never leaves the systematic arm                    *)
SwitchesToRandom_Never(e) == FALSE

(* variant: the switch happens one call late                               *)
SwitchesToRandom_Late(e) == (e.cnt + 1) > e.cnt_blocks

SwitchesToRandom(e) == (e.cnt + 2) > e.cnt_blocks

(* Encoder::next; m is the sampler's uniform draw, seed the rng's u32 *)
EncoderNextDrop(e, m, seed) ==
    IF e.encodertype = "Random"
    THEN RandomDroplet(e, seed, IdealSolitonNext(e.cnt_blocks, m))
    ELSE SystematicDroplet(e)

EncoderNextState(e) ==
    [e EXCEPT !.cnt = e.cnt + 1,
              !.encodertype = IF e.encodertype = "Systematic" /\ SwitchesToRandom(e)
                              THEN "Random" ELSE e.encodertype]

----------------------------------------------------------------------------
(* Decoder *)

Block(i, blocksize) == [idx |-> i, edges |-> <<>>, begin_at |-> blocksize * i, is_known |-> FALSE]

(* Vec::with_capacity(usize::MAX) of blocks panics with a capacity         *)
(* overflow: Decoder::new does not return.                                 *)
DecoderNewPanics(len, blocksize) == CeilDiv(len, blocksize) = UsizeMax

DecoderNew(len, blocksize) ==
    LET number_of_chunks == CeilDiv(len, blocksize) IN
    [total_length |-> len,
     blocksize |-> blocksize,
     number_of_chunks |-> number_of_chunks,
     unknown_chunks |-> number_of_chunks,
     cnt_received_drops |-> 0,
     blocks |-> [i \in 0..(number_of_chunks - 1) |-> Block(i, blocksize)],
     data |-> Zeros(number_of_chunks * blocksize)]

NoFrame == [drops |-> <<>>, drop |-> 0, edges |-> <<>>, blk |-> 0]

NoResult == [kind |-> "None", data |-> <<>>, cnt_droplets |-> 0, cnt_chunks |-> 0,
             overhead |-> <<0, 0>>, unknown_chunks |-> 0]

(* A decoder together with the activation of catch / process_droplet *)
Machine(d, h, p, f, r) == [dec |-> d, heap |-> h, pc |-> p, fr |-> f, result |-> r]

Panic(m) == [m EXCEPT !.pc = "panicked", !.result = [NoResult EXCEPT !.kind = "Panic"]]

(* dst[i] ^= src[off + i] for i in 0..n: stops with a panic at the first   *)
(* i outside dst, keeping the bytes already changed                        *)
XorInto(dst, src, off, n) ==
    [j \in 1..Len(dst) |-> IF j <= n THEN BXor(dst[j], src[off + j]) ELSE dst[j]]

(* buf[off + i] = src[i] for i in 0..n, same panic rule on src             *)
CopyInto(buf, off, src, n) ==
    [j \in 1..Len(buf) |->
        IF j > off /\ j - off <= Min(n, Len(src)) THEN src[j - off] ELSE buf[j]]

(* the droplets still owned by an Rc: worklist, current drop, block lists  *)
Live(m) ==
    SeqSet(m.fr.drops) \cup {m.fr.drop}
      \cup UNION {SeqSet(m.dec.blocks[i].edges) : i \in DOMAIN m.dec.blocks}

Gc(m) == [m EXCEPT !.heap = [k \in (DOMAIN m.heap) \cap Live(m) |-> m.heap[k]]]

(* catch, lines 310-319: count the droplet, resolve its descriptor, wrap   *)
(* it and enter process_droplet with the worklist holding it               *)
CatchSample(d, drop) ==
    IF drop.droptype.tag = "Seeded"
    THEN get_sample_from_rng_by_seed(drop.droptype.seed, d.number_of_chunks, drop.droptype.degree)
    ELSE drop.droptype.edges

CatchBegin(m, drop) ==
    LET id == m.dec.cnt_received_drops + 1
        rxdrop == [edges_idx |-> CatchSample(m.dec, drop), data |-> drop.data]
    IN [m EXCEPT !.dec.cnt_received_drops = id,
                 !.heap = (id :> rxdrop) @@ m.heap,
                 !.fr = [NoFrame EXCEPT !.drops = <<id>>],
                 !.pc = "pop",
                 !.result = NoResult]

(* drops.pop(): None returns from process_droplet, Some(drop) snapshots    *)
(* its edges                                                               *)
PopStep(m) ==
    IF m.fr.drops = <<>>
    THEN [m EXCEPT !.pc = "ret", !.fr = NoFrame]
    ELSE LET id == Last(m.fr.drops) IN
         [m EXCEPT !.fr.drops = Front(m.fr.drops),
                   !.fr.drop = id,
                   !.fr.edges = m.heap[id].edges_idx,
                   !.pc = "stepA"]

(* variant: the droplet is XORed into the buffer at the known block        *)
EliminateKnown_IntoBuffer(m, ed) ==
    LET id == m.fr.drop
        rx == m.heap[id]
        block == m.dec.blocks[ed]
    IN [m EXCEPT !.heap[id].edges_idx = RemoveAt(rx.edges_idx, Position(rx.edges_idx, ed)),
                 !.dec.data = [j \in 1..Len(m.dec.data) |->
                    IF j > block.begin_at /\ j - block.begin_at <= Min(m.dec.blocksize, Len(rx.data))
                    THEN BXor(m.dec.data[j], rx.data[j - block.begin_at])
                    ELSE m.dec.data[j]]]

(* XOR a known block into the droplet and remove the edge                 *)
EliminateKnown(m, ed) ==
    LET id == m.fr.drop
        rx == m.heap[id]
        block == m.dec.blocks[ed]
        xored == XorInto(rx.data, m.dec.data, block.begin_at, m.dec.blocksize)
    IN IF Len(rx.data) < m.dec.blocksize
       THEN Panic([m EXCEPT !.heap[id].data = xored])
       ELSE [m EXCEPT !.heap[id] = [edges_idx |-> RemoveAt(rx.edges_idx, Position(rx.edges_idx, ed)),
                                    data |-> xored]]

(* variant: a known block is treated like an unknown one                   *)
StepA_NoEliminate(m) ==
    IF m.fr.edges = <<>>
    THEN [m EXCEPT !.pc = "stepB"]
    ELSE LET ed == Head(m.fr.edges)
             n == [m EXCEPT !.fr.edges = Tail(m.fr.edges)]
         IN IF ed \notin DOMAIN m.dec.blocks
            THEN Panic(n)
            ELSE [n EXCEPT !.dec.blocks[ed].edges = Append(@, m.fr.drop)]

(* one iteration of `for ed in edges`, lines 252-265                       *)
StepA(m) ==
    IF m.fr.edges = <<>>
    THEN [m EXCEPT !.pc = "stepB"]
    ELSE LET ed == Head(m.fr.edges)
             n == [m EXCEPT !.fr.edges = Tail(m.fr.edges)]
         IN IF ed \notin DOMAIN m.dec.blocks
            THEN Panic(n)
            ELSE IF m.dec.blocks[ed].is_known
                 THEN EliminateKnown(n, ed)
                 ELSE [n EXCEPT !.dec.blocks[ed].edges = Append(@, m.fr.drop)]

(* variant: the block is marked but unknown_chunks keeps its value         *)
ResolveBlock_NoCount(m, first_idx) ==
    [m EXCEPT !.dec.data = CopyInto(m.dec.data, m.dec.blocks[first_idx].begin_at,
                                    m.heap[m.fr.drop].data, m.dec.blocksize),
              !.dec.blocks[first_idx].is_known = TRUE,
              !.fr.blk = first_idx,
              !.pc = "drain"]

(* variant: the droplet is written at offset idx instead of begin_at       *)
ResolveBlock_AtIndex(m, first_idx) ==
    [m EXCEPT !.dec.data = CopyInto(m.dec.data, first_idx,
                                    m.heap[m.fr.drop].data, m.dec.blocksize),
              !.dec.blocks[first_idx].is_known = TRUE,
              !.dec.unknown_chunks = m.dec.unknown_chunks - 1,
              !.fr.blk = first_idx,
              !.pc = "drain"]

(* variant: the block's pending list is not drained                       *)
ResolveBlock_NoDrain(m, first_idx) ==
    [m EXCEPT !.dec.data = CopyInto(m.dec.data, m.dec.blocks[first_idx].begin_at,
                                    m.heap[m.fr.drop].data, m.dec.blocksize),
              !.dec.blocks[first_idx].is_known = TRUE,
              !.dec.unknown_chunks = m.dec.unknown_chunks - 1,
              !.fr.drop = 0,
              !.pc = "pop"]

(* write the droplet into the buffer and mark the block, lines 272-279     *)
ResolveBlock(m, first_idx) ==
    LET rx == m.heap[m.fr.drop]
        block == m.dec.blocks[first_idx]
        written == CopyInto(m.dec.data, block.begin_at, rx.data, m.dec.blocksize)
    IN IF Len(rx.data) < m.dec.blocksize
       THEN Panic([m EXCEPT !.dec.data = written])
       ELSE [m EXCEPT !.dec.data = written,
                      !.dec.blocks[first_idx].is_known = TRUE,
                      !.dec.unknown_chunks = m.dec.unknown_chunks - 1,
                      !.fr.blk = first_idx,
                      !.pc = "drain"]

(* lines 266-271                                                           *)
StepB(m) ==
    LET rx == m.heap[m.fr.drop] IN
    IF Len(rx.edges_idx) = 1 /\ ~m.dec.blocks[rx.edges_idx[1]].is_known
    THEN ResolveBlock(m, rx.edges_idx[1])
    ELSE [m EXCEPT !.pc = "pop", !.fr.drop = 0]

(* variant: a droplet reduced to one edge is not put on the worklist       *)
ReduceEdge_NoPush(m, e) ==
    LET block == m.dec.blocks[m.fr.blk]
        rx == m.heap[e]
        pos == Position(rx.edges_idx, block.idx)
    IN IF pos = 0 THEN Panic(m)
       ELSE [m EXCEPT !.heap[e] =
                [edges_idx |-> RemoveAt(rx.edges_idx, pos),
                 data |-> XorInto(rx.data, m.dec.data, block.begin_at, m.dec.blocksize)]]

(* variant: the edge is removed without XORing the block into the droplet *)
ReduceEdge_NoXor(m, e) ==
    LET block == m.dec.blocks[m.fr.blk]
        rx == m.heap[e]
        pos == Position(rx.edges_idx, block.idx)
        rest == RemoveAt(rx.edges_idx, pos)
    IN IF pos = 0 THEN Panic(m)
       ELSE [m EXCEPT !.heap[e].edges_idx = rest,
                      !.fr.drops = IF Len(rest) = 1 THEN Append(@, e) ELSE @]

(* variant: the block is XORed into the droplet but the edge stays        *)
ReduceEdge_KeepEdge(m, e) ==
    LET block == m.dec.blocks[m.fr.blk]
        rx == m.heap[e]
    IN [m EXCEPT !.heap[e].data =
            XorInto(rx.data, m.dec.data, block.begin_at, m.dec.blocksize)]

(* the else-branch of the drain loop, lines 289-297                        *)
ReduceEdge(m, e) ==
    LET block == m.dec.blocks[m.fr.blk]
        rx == m.heap[e]
        xored == XorInto(rx.data, m.dec.data, block.begin_at, m.dec.blocksize)
        pos == Position(rx.edges_idx, block.idx)
        rest == RemoveAt(rx.edges_idx, pos)
    IN IF Len(rx.data) < m.dec.blocksize \/ pos = 0
       THEN Panic([m EXCEPT !.heap[e].data = xored])
       ELSE [m EXCEPT !.heap[e] = [edges_idx |-> rest, data |-> xored],
                      !.fr.drops = IF Len(rest) = 1 THEN Append(@, e) ELSE @]

(* one iteration of `while block.edges.len() > 0`, lines 281-299           *)
DrainStep(m) ==
    LET list == m.dec.blocks[m.fr.blk].edges IN
    IF list = <<>>
    THEN [m EXCEPT !.pc = "pop", !.fr.drop = 0, !.fr.blk = 0]
    ELSE LET e == Last(list)
             n == [m EXCEPT !.dec.blocks[m.fr.blk].edges = Front(list)]
         IN IF Len(m.heap[e].edges_idx) = 1
            THEN [n EXCEPT !.fr.drops = Append(@, e)]
            ELSE ReduceEdge(n, e)

(* variant: cnt_chunks reports the chunks known so far                     *)
Stats_KnownChunks(d) ==
    [cnt_droplets |-> d.cnt_received_drops,
     cnt_chunks |-> d.number_of_chunks - d.unknown_chunks,
     overhead |-> <<d.cnt_received_drops * 100, d.number_of_chunks>>,
     unknown_chunks |-> d.unknown_chunks]

Stats(d) ==
    [cnt_droplets |-> d.cnt_received_drops,
     cnt_chunks |-> d.number_of_chunks,
     overhead |-> <<d.cnt_received_drops * 100, d.number_of_chunks>>,
     unknown_chunks |-> d.unknown_chunks]

(* variant: the whole buffer is returned, padding included                 *)
FinishedData_Padded(d) == d.data

(* the bytes pushed by `for i in 0..self.total_length`                     *)
FinishedData(d) == SubSeq(d.data, 1, d.total_length)

(* catch after process_droplet returned, lines 320-336                     *)
CatchReturn(m) ==
    LET st == Stats(m.dec) IN
    IF m.dec.unknown_chunks = 0
    THEN IF m.dec.total_length > Len(m.dec.data)
         THEN Panic(m)
         ELSE [m EXCEPT !.pc = "idle",
                        !.result = [kind |-> "Finished", data |-> FinishedData(m.dec)] @@ st]
    ELSE [m EXCEPT !.pc = "idle", !.result = [kind |-> "Missing", data |-> <<>>] @@ st]

(* one step of a running catch                                             *)
Step(m) ==
    CHOOSE r \in {Gc(n) : n \in {CASE m.pc = "pop" -> PopStep(m)
                                  [] m.pc = "stepA" -> StepA(m)
                                  [] m.pc = "stepB" -> StepB(m)
                                  [] m.pc = "drain" -> DrainStep(m)
                                  [] m.pc = "ret" -> CatchReturn(m)
                                  [] OTHER -> m}} : TRUE

(* the steps of a call until it returns or panics (each step is bound to  *)
(* a value before the next one is taken)                                   *)
RECURSIVE Run(_)
Run(m) ==
    IF m.pc \in {"idle", "panicked"} THEN m
    ELSE CHOOSE r \in {Run(n) : n \in {Step(m)}} : TRUE

(* a whole call of catch                                                   *)
Catch(m, drop) == Run(CatchBegin(m, drop))

----------------------------------------------------------------------------
(* State machine.                                                          *)
(*   enc, dec       the Encoder and the Decoder                            *)
(*   heap           the RxDroplets behind the Rc handles                   *)
(*   pc, fr         position and locals of the running catch               *)
(*   result         the CatchResult of the last catch                      *)
(*   cur            the droplet of the last catch                          *)
(*   pre            the decoder before the last catch (SpecAny)            *)
(*   fed            the droplets caught so far, in order (SpecOrder)       *)
(*   hist           constructor arguments, losses, first Finished payload  *)
(*   sol            the samplers: parameters, last draw and last degrees   *)

Mach == Machine(dec, heap, pc, fr, result)

NoHeap == [k \in {} |-> 0]

NoDroplet == Droplet(Edges(<<>>), <<>>)

NoCall == [called |-> FALSE, y |-> 0, degree |-> 0]

NoSol == [k |-> 0, ideal |-> NoCall, lib |-> NoCall]

(* The payload of a run.  Encoder and decoder only copy and XOR bytes and  *)
(* never branch on them, so the decoded bytes are a GF(2)-linear function  *)
(* of the payload; byte i carries bit i alone, which makes every XOR of    *)
(* payload bytes a different value and shows any wrong combination.        *)
SourcePayload(len) == [i \in 1..len |-> 2 ^ (i - 1)]

EncoderTypes == {"Systematic", "Random"}

Hist0(len, blocksize, type) ==
    [len |-> len, blocksize |-> blocksize, type |-> type, lost |-> 0,
     finished |-> FALSE, payload |-> <<>>]

(* Encoder::new and Decoder::new as the tests call them                    *)
Construct(payload, blocksize, type) ==
    /\ enc = EncoderNew(payload, blocksize, type)
    /\ IF DecoderNewPanics(Len(payload), blocksize)
       THEN /\ dec = DecoderNew(0, blocksize)
            /\ pc = "panicked"
            /\ result = [NoResult EXCEPT !.kind = "Panic"]
       ELSE /\ dec = DecoderNew(Len(payload), blocksize)
            /\ pc = "idle"
            /\ result = NoResult
    /\ heap = NoHeap
    /\ fr = NoFrame
    /\ cur = NoDroplet
    /\ pre = [dec |-> dec, heap |-> heap]
    /\ fed = <<>>
    /\ hist = Hist0(Len(payload), blocksize, type)
    /\ sol = NoSol

Init ==
    \E len \in 1..MaxLen, blocksize \in 1..MaxBlock, type \in EncoderTypes :
        Construct(SourcePayload(len), blocksize, type)

(* the machine after a whole catch, written to the variables               *)
Caught(drop) ==
    \E n \in {Catch(Mach, drop)} :
        /\ dec' = n.dec
        /\ heap' = n.heap
        /\ pc' = n.pc
        /\ fr' = n.fr
        /\ result' = n.result
        /\ cur' = drop

NoteFinished(h, r) ==
    IF r.kind = "Finished" /\ ~h.finished
    THEN [h EXCEPT !.finished = TRUE, !.payload = r.data]
    ELSE h

Draws == 0..(YGrid - 1)

Seeds == 0..MaxSeed

(* the droplets Encoder::next can return in state e                        *)
NextDroplets(e) == {EncoderNextDrop(e, m, seed) : m \in Draws, seed \in Seeds}

(* one turn of the test loop `for drop in enc { dec.catch(drop) }`         *)
Deliver(drop) ==
    /\ pc = "idle"
    /\ dec.cnt_received_drops < MaxRecv
    /\ enc' = EncoderNextState(enc)
    /\ Caught(drop)
    /\ hist' = NoteFinished(hist, result')
    /\ UNCHANGED <<pre, fed, sol>>

(* one turn of the loop in which the channel loses the droplet             *)
Lose ==
    /\ pc = "idle"
    /\ hist.lost < MaxLoss
    /\ enc' = EncoderNextState(enc)
    /\ hist' = [hist EXCEPT !.lost = hist.lost + 1]
    /\ UNCHANGED <<dec, heap, pc, fr, result, cur, pre, fed, sol>>

Next ==
    \/ \E drop \in NextDroplets(enc) : Deliver(drop)
    \/ Lose

Spec == Init /\ [][Next]_vars

(* the same loop without loss, remembering what was caught                 *)
Feed(drop) ==
    /\ pc = "idle"
    /\ Len(fed) < MaxFeed
    /\ enc' = EncoderNextState(enc)
    /\ Caught(drop)
    /\ fed' = Append(fed, drop)
    /\ hist' = NoteFinished(hist, result')
    /\ UNCHANGED <<pre, sol>>

NextOrder == \E drop \in NextDroplets(enc) : Feed(drop)

SpecOrder == Init /\ [][NextOrder]_vars

----------------------------------------------------------------------------
(* The lossy loop under a fair channel.  The run is cut off after MaxRecv  *)
(* catches and MaxLoss losses; a droplet is only delivered while the       *)
(* catches left still cover the chunks that stay unknown after it, so the  *)
(* cut-off never takes away a catch the decoder needs.                     *)

InitFair ==
    \E len \in 1..MaxLen, blocksize \in 1..MaxBlock :
        /\ CeilDiv(len, blocksize) <= MaxRecv
        /\ Construct(SourcePayload(len), blocksize, "Systematic")

Reserve(drop) ==
    \A n \in {Catch(Mach, drop)} :
        n.dec.cnt_received_drops + n.dec.unknown_chunks <= MaxRecv

(* the encoder draws (m, seed) and the channel delivers the droplet        *)
FairDeliver(m, seed) ==
    \E drop \in {EncoderNextDrop(enc, m, seed)} :
        /\ pc = "idle"
        /\ Reserve(drop)
        /\ Deliver(drop)

NextFair ==
    \/ \E m \in Draws, seed \in Seeds : FairDeliver(m, seed)
    \/ Lose

(* a delivery that makes a chunk known                                     *)
Progress ==
    /\ \E m \in Draws, seed \in Seeds : FairDeliver(m, seed)
    /\ dec'.unknown_chunks < dec.unknown_chunks

(* A channel that eventually delivers every droplet the encoder keeps      *)
(* emitting does not withhold for ever the droplets that make progress.    *)
SpecFair ==
    /\ InitFair
    /\ [][NextFair]_vars
    /\ WF_vars(Progress)

----------------------------------------------------------------------------
(* The decoder under arbitrary callers: any constructor arguments, and     *)
(* droplets that need not come from the encoder.                           *)

InitAny ==
    \E len \in 0..MaxAnyLen, blocksize \in 0..MaxBlock, type \in EncoderTypes :
        Construct(SourcePayload(len), blocksize, type)

(* a byte no XOR of payload bytes equals                                   *)
JunkByte == 2 ^ MaxAnyLen

(* the XOR of the source chunks at the valid indices of a list             *)
TrueData(e, k, list) ==
    XorChunks(e, Zeros(e.blocksize), SelectSeq(list, LAMBDA i : i < k))

SeededData(e, k, seed, degree) ==
    TrueData(e, k, get_sample_from_rng_by_seed(seed, k, degree))

(* neighbour lists a caller may hand over: singles, adjacent pairs, a      *)
(* repeated index, and lists with the index k that no chunk has            *)
GoodLists(k) == {<<i>> : i \in 0..(k - 1)} \cup {<<i, i + 1>> : i \in 0..(k - 2)}

BadLists(k) == {<<k>>, <<0, k>>, <<0, 0>>}

AnyDroplets(e, k) ==
    {Droplet(Edges(l), TrueData(e, k, l)) : l \in GoodLists(k) \cup BadLists(k)}
      \cup {Droplet(Seeded(0, d), SeededData(e, k, 0, d)) : d \in 1..(k + 1)}
      \cup {Droplet(Edges(l), Front(TrueData(e, k, l))) :
                l \in {x \in {<<0>>, <<0, 1>>} : e.blocksize > 0}}
      \cup {Droplet(Edges(l), Append(TrueData(e, k, l), JunkByte)) : l \in {<<0>>, <<0, 1>>}}
      \cup {Droplet(Edges(<<0>>), [j \in 1..e.blocksize |-> JunkByte])}

(* catch called with any of these droplets                                 *)
Inject(drop) ==
    /\ pc = "idle"
    /\ dec.cnt_received_drops < MaxAnyRecv
    /\ Caught(drop)
    /\ pre' = [dec |-> dec, heap |-> heap]
    /\ hist' = NoteFinished(hist, result')
    /\ UNCHANGED <<enc, fed, sol>>

NextAny == \E drop \in AnyDroplets(enc, dec.number_of_chunks) : Inject(drop)

SpecAny == InitAny /\ [][NextAny]_vars

----------------------------------------------------------------------------
(* process_droplet step by step: a catch is entered with Begin and then    *)
(* runs one step of Step at a time, so the states between two worklist     *)
(* steps and between two drained entries are states of the model.          *)

(* well-formed droplets of the payload: Explicit singles and adjacent      *)
(* pairs, and Seeded droplets of every degree up to k                      *)
TrueDroplets(e, k) ==
    {Droplet(Edges(l), TrueData(e, k, l)) : l \in GoodLists(k)}
      \cup {Droplet(Seeded(0, d), SeededData(e, k, 0, d)) : d \in 1..k}

(* the encoder only supplies the payload here: one encoder type is enough *)
InitStep ==
    \E len \in 1..MaxLen, blocksize \in 1..MaxBlock :
        Construct(SourcePayload(len), blocksize, "Random")

InitAnyStep ==
    \E len \in 0..MaxAnyLen, blocksize \in 0..MaxBlock :
        Construct(SourcePayload(len), blocksize, "Random")

(* catch, lines 310-319, up to the entry of the loop                       *)
Begin(drop, limit) ==
    /\ pc = "idle"
    /\ dec.cnt_received_drops < limit
    /\ \E n \in {CatchBegin(Mach, drop)} :
        /\ dec' = n.dec
        /\ heap' = n.heap
        /\ pc' = n.pc
        /\ fr' = n.fr
        /\ result' = n.result
    /\ cur' = drop
    /\ pre' = [dec |-> dec, heap |-> heap]
    /\ fed' = Append(fed, drop)
    /\ UNCHANGED <<enc, hist, sol>>

(* one step of the running call                                            *)
Proceed ==
    /\ pc \notin {"idle", "panicked"}
    /\ \E n \in {Step(Mach)} :
        /\ dec' = n.dec
        /\ heap' = n.heap
        /\ pc' = n.pc
        /\ fr' = n.fr
        /\ result' = n.result
        /\ hist' = NoteFinished(hist, n.result)
    /\ UNCHANGED <<enc, cur, pre, fed, sol>>

NextStep ==
    \/ \E drop \in TrueDroplets(enc, dec.number_of_chunks) : Begin(drop, MaxStepRecv)
    \/ Proceed

(* a call that has started is run to its end                               *)
SpecStep == InitStep /\ [][NextStep]_vars /\ WF_vars(Proceed)

NextAnyStep ==
    \/ \E drop \in AnyDroplets(enc, dec.number_of_chunks) : Begin(drop, MaxAnyStepRecv)
    \/ Proceed

SpecAnyStep == InitAnyStep /\ [][NextAnyStep]_vars

----------------------------------------------------------------------------
(* The degree samplers on their own                                        *)

InitSol ==
    /\ \E k \in 1..MaxN : sol = [NoSol EXCEPT !.k = k]
    /\ enc = EncoderNew(SourcePayload(1), 1, "Random")
    /\ dec = DecoderNew(1, 1)
    /\ heap = NoHeap
    /\ pc = "idle"
    /\ fr = NoFrame
    /\ result = NoResult
    /\ cur = NoDroplet
    /\ pre = [dec |-> dec, heap |-> heap]
    /\ fed = <<>>
    /\ hist = Hist0(1, 1, "Random")

IdealNext(m) ==
    /\ sol' = [sol EXCEPT !.ideal = [called |-> TRUE, y |-> m,
                                     degree |-> IdealSolitonNext(sol.k, m)]]
    /\ UNCHANGED <<enc, dec, heap, pc, fr, result, cur, pre, fed, hist>>

LibNext(m) ==
    /\ sol' = [sol EXCEPT !.lib = [called |-> TRUE, y |-> m,
                                   degree |-> SolitonNext(sol.k, m)]]
    /\ UNCHANGED <<enc, dec, heap, pc, fr, result, cur, pre, fed, hist>>

NextSol ==
    \/ \E m \in Draws : IdealNext(m)
    \/ \E m \in Draws : LibNext(m)

SpecSol == InitSol /\ [][NextSol]_vars

----------------------------------------------------------------------------
(* Properties *)

K == dec.number_of_chunks

KnownSet(d) == {i \in DOMAIN d.blocks : d.blocks[i].is_known}

(* source chunk n of the payload, the last one zero-padded to blocksize    *)
PaddedChunk(payload, blocksize, n) ==
    [j \in 1..blocksize |->
        IF n * blocksize + j <= Len(payload) THEN payload[n * blocksize + j] ELSE 0]

(* C1: whenever catch returns Finished(data, _) for droplets of an Encoder *)
(* over the payload, data has exactly the payload's length and equals the  *)
(* payload byte for byte.                                                  *)
C1_RoundTrip ==
    result.kind = "Finished" =>
        /\ Len(result.data) = enc.len
        /\ result.data = enc.data

(* a decoding with a partial last chunk that used a combined droplet       *)
C1_Witness ==
    /\ result.kind = "Finished"
    /\ enc.len % enc.blocksize # 0
    /\ K >= 2
    /\ cur.droptype.degree >= 2

(* C2: a Systematic encoder whose droplets are all caught in emission      *)
(* order: catch number n < K returns Missing with cnt_chunks -             *)
(* unknown_chunks = n, catch number K returns Finished with cnt_chunks = K.*)
C2_SystematicOptimal ==
    LET n == dec.cnt_received_drops IN
    (hist.type = "Systematic" /\ hist.lost = 0 /\ n >= 1 /\ n <= K) =>
        /\ n < K => /\ result.kind = "Missing"
                    /\ result.cnt_chunks - result.unknown_chunks = n
        /\ n = K => /\ result.kind = "Finished"
                    /\ result.cnt_chunks = n

C2_Witness ==
    /\ hist.type = "Systematic"
    /\ hist.lost = 0
    /\ K = 3
    /\ dec.cnt_received_drops = K
    /\ result.kind = "Finished"

(* all droplets of a sequence caught in turn by machine m                  *)
RECURSIVE CatchAll(_, _)
CatchAll(m, drops) ==
    IF drops = <<>> \/ m.pc = "panicked" THEN m
    ELSE CatchAll(Catch(m, Head(drops)), Tail(drops))

Fresh == Machine(DecoderNew(dec.total_length, dec.blocksize), NoHeap, "idle", NoFrame, NoResult)

(* C3: fed to a fresh decoder in any other order, the droplets caught so   *)
(* far leave the same known chunks, the same unknown_chunks, the same      *)
(* buffer and the same kind of result with the same payload.               *)
C3_OrderIndependent ==
    pc = "idle" =>
        \A perm \in Permutations(1..Len(fed)) :
            LET other == CatchAll(Fresh, [i \in 1..Len(fed) |-> fed[perm[i]]]) IN
            /\ other.pc = "idle"
            /\ KnownSet(other.dec) = KnownSet(dec)
            /\ other.dec.unknown_chunks = dec.unknown_chunks
            /\ other.dec.data = dec.data
            /\ other.result.kind = result.kind
            /\ other.result.data = result.data

(* a pending pair peeled by the droplet that follows it: in the other     *)
(* order the pair is reduced on arrival instead                            *)
C3_Witness ==
    /\ pc = "idle"
    /\ Len(fed) = 2
    /\ Len(CatchSample(dec, fed[1])) = 2
    /\ Len(CatchSample(dec, fed[2])) = 1
    /\ dec.unknown_chunks = 0

(* C10: a Systematic encoder emits Explicit([n]) with source chunk n on    *)
(* call n < K, is Random from the call that emits chunk K-1, emits Seeded  *)
(* droplets from call K on, never returns to Systematic and never emits an *)
(* Explicit index >= K.                                                    *)
C10_SystematicPrefix ==
    [][/\ enc.encodertype = "Random" => enc'.encodertype = "Random"
       /\ hist.type = "Systematic" =>
            (enc'.encodertype = "Random" <=> enc'.cnt >= enc.cnt_blocks)
       /\ (dec'.cnt_received_drops # dec.cnt_received_drops /\ hist.type = "Systematic") =>
            LET n == enc.cnt
                d == cur'
            IN /\ enc'.cnt = n + 1
               /\ n < enc.cnt_blocks =>
                    /\ d.droptype = Edges(<<n>>)
                    /\ d.data = PaddedChunk(enc.data, enc.blocksize, n)
               /\ n >= enc.cnt_blocks => d.droptype.tag = "Seeded"
               /\ d.droptype.tag = "Edges" =>
                    \A i \in 1..Len(d.droptype.edges) : d.droptype.edges[i] < enc.cnt_blocks
      ]_vars

C10_Witness ==
    /\ hist.type = "Systematic"
    /\ enc.encodertype = "Random"
    /\ enc.cnt_blocks >= 2
    /\ enc.cnt > enc.cnt_blocks
    /\ cur.droptype.tag = "Seeded"
    /\ dec.cnt_received_drops = enc.cnt

(* shapes of droplets with respect to a decoder of k chunks, blocksize b   *)
Distinct(list) == \A i, j \in 1..Len(list) : list[i] = list[j] => i = j

WellFormed(drop, k, b) ==
    /\ Len(drop.data) = b
    /\ drop.droptype.tag = "Seeded" => drop.droptype.degree \in 1..k
    /\ drop.droptype.tag = "Edges" =>
        /\ drop.droptype.edges # <<>>
        /\ Distinct(drop.droptype.edges)
        /\ \A i \in 1..Len(drop.droptype.edges) : drop.droptype.edges[i] < k

MalformedDescriptor(drop, k) ==
    \/ drop.droptype.tag = "Seeded" /\ drop.droptype.degree > k
    \/ drop.droptype.tag = "Edges" /\
         \E i \in 1..Len(drop.droptype.edges) : drop.droptype.edges[i] >= k

Returned == pc \in {"idle", "panicked"} /\ dec.cnt_received_drops >= 1

(* C4: once a catch has returned Finished, every later catch of a          *)
(* well-formed droplet returns Finished with the same data, does not       *)
(* panic and leaves buffer, chunk slots and unknown_chunks (= 0) as they   *)
(* were.                                                                   *)
C4_IdempotentCompletion ==
    [][(hist.finished /\ dec'.cnt_received_drops # dec.cnt_received_drops
          /\ \E d \in {cur'} : WellFormed(d, dec.number_of_chunks, dec.blocksize)) =>
            /\ pc' = "idle"
            /\ result'.kind = "Finished"
            /\ result'.data = hist.payload
            /\ dec'.data = dec.data
            /\ dec'.blocks = dec.blocks
            /\ dec'.unknown_chunks = 0
      ]_vars

C4_Witness ==
    /\ hist.finished
    /\ pre.dec.unknown_chunks = 0
    /\ K >= 2
    /\ WellFormed(cur, K, dec.blocksize)
    /\ Len(CatchSample(dec, cur)) = 2
    /\ \E j \in 1..Len(cur.data) : cur.data[j] # 0
    /\ result.kind = "Finished"

(* C6: a droplet with a neighbour index >= K or a Seeded degree > K is     *)
(* answered with InvalidDroplet and the decoder is as before the call.     *)
C6_MalformedRejected ==
    (Returned /\ hist.len >= 1 /\ hist.blocksize >= 1 /\ MalformedDescriptor(cur, K)) =>
        /\ result.kind = "InvalidDroplet"
        /\ dec = pre.dec
        /\ heap = pre.heap

(* C7: a droplet whose data length differs from blocksize is answered      *)
(* with InvalidDroplet and the decoder is as before the call.              *)
C7_WrongLengthRejected ==
    (Returned /\ hist.len >= 1 /\ hist.blocksize >= 1 /\ Len(cur.data) # dec.blocksize) =>
        /\ result.kind = "InvalidDroplet"
        /\ pre.dec = dec
        /\ pre.heap = heap

(* C8: constructors called with length 0 or blocksize 0 fail with          *)
(* InvalidArgument; no decoder is complete before its first catch.         *)
C8_ConstructorsReject ==
    /\ (hist.len = 0 \/ hist.blocksize = 0) => result.kind = "InvalidArgument"
    /\ (pc = "idle" /\ dec.cnt_received_drops = 0) => dec.unknown_chunks > 0

(* C9: every degree returned by IdealSoliton::next and Soliton::next for   *)
(* K >= 1 lies in [1, K]; a draw whose ceil(1/y) exceeds K yields 1.       *)
C9_DegreeBounds ==
    /\ sol.ideal.called =>
        /\ sol.ideal.degree \in 1..sol.k
        /\ CeilInv(sol.ideal.y) > sol.k => sol.ideal.degree = 1
    /\ sol.lib.called =>
        /\ sol.lib.degree \in 1..sol.k
        /\ CeilInv(sol.lib.y) > sol.k => sol.lib.degree = 1

(* y exactly 1/K for the ideal sampler, y = 0 for the other                *)
C9_Witness ==
    /\ sol.k >= 2
    /\ sol.ideal.called
    /\ sol.ideal.y * sol.k = YGrid
    /\ sol.ideal.degree = sol.k
    /\ sol.lib.called
    /\ sol.lib.y = 0
    /\ sol.lib.degree = 1

----------------------------------------------------------------------------
(* Properties of the emitted droplets and of the decoder's bookkeeping     *)

(* the XOR of the zero-padded source chunks named by a list                *)
RECURSIVE XorOfChunks(_, _, _)
XorOfChunks(payload, blocksize, list) ==
    IF list = <<>> THEN Zeros(blocksize)
    ELSE LET c == PaddedChunk(payload, blocksize, Head(list))
             r == XorOfChunks(payload, blocksize, Tail(list))
         IN [j \in 1..blocksize |-> BXor(c[j], r[j])]

(* the neighbour set a droplet of encoder e stands for                     *)
Neighbours(e, drop) ==
    IF drop.droptype.tag = "Seeded"
    THEN get_sample_from_rng_by_seed(drop.droptype.seed, e.cnt_blocks, drop.droptype.degree)
    ELSE drop.droptype.edges

(* C11: every droplet Encoder::next returns has exactly blocksize bytes,   *)
(* equal to the XOR of the zero-padded source chunks of its neighbour set, *)
(* and next leaves the payload as it was.                                  *)
C11_EmissionInvariant ==
    [][/\ enc'.data = enc.data
       /\ enc'.len = enc.len
       /\ dec'.cnt_received_drops # dec.cnt_received_drops =>
            \A d \in {cur'} : \A list \in {Neighbours(enc, d)} :
                /\ Len(d.data) = enc.blocksize
                /\ d.data = XorOfChunks(enc.data, enc.blocksize, list)
      ]_vars

(* a Seeded droplet of several chunks, the partial last chunk among them   *)
C11_Witness ==
    /\ cur.droptype.tag = "Seeded"
    /\ Len(Neighbours(enc, cur)) >= 2
    /\ (enc.cnt_blocks - 1) \in SeqSet(Neighbours(enc, cur))
    /\ enc.len % enc.blocksize # 0
    /\ dec.cnt_received_drops >= 1

UnknownSlots(d) == {i \in DOMAIN d.blocks : ~d.blocks[i].is_known}

(* C12: the n-th catch that returns carries cnt_droplets = n, cnt_chunks = *)
(* K and unknown_chunks = the number of slots still unknown; it is         *)
(* Finished exactly when that number is 0 and Missing otherwise.           *)
C12_Statistics ==
    [][(dec'.cnt_received_drops # dec.cnt_received_drops /\ pc' = "idle") =>
         \A d \in {dec'} : \A r \in {result'} :
            /\ r.kind \in {"Finished", "Missing"}
            /\ r.cnt_droplets = result.cnt_droplets + 1
            /\ r.cnt_chunks = CeilDiv(hist.len, hist.blocksize)
            /\ r.unknown_chunks = Cardinality(UnknownSlots(d))
            /\ r.kind = "Finished" <=> Cardinality(UnknownSlots(d)) = 0
      ]_vars

(* a redundant droplet caught after completion, and a Missing before it    *)
C12_Witness ==
    /\ pc = "idle"
    /\ K = 2
    /\ pre.dec.unknown_chunks = 0
    /\ pre.dec.cnt_received_drops = 2
    /\ result.kind = "Finished"
    /\ result.cnt_droplets = 3
    /\ result.cnt_chunks = 2

(* the pending droplets a chunk list refers to, as values                  *)
PendingValues(m, i) == {m.heap[id] : id \in SeqSet(m.dec.blocks[i].edges)}

(* C13: a droplet identical to one caught before changes nothing but the   *)
(* received counter: with the duplicate left out of the droplets caught so *)
(* far, the decoder ends with the same known chunks, unknown_chunks and    *)
(* buffer, and every chunk list refers to the same pending droplets (the   *)
(* duplicate, while pending, equals its original).                         *)
C13_DuplicatesHarmless ==
    pc = "idle" =>
        \A i \in 1..Len(fed) :
            (\E j \in 1..(i - 1) : fed[j] = fed[i]) =>
                LET other == CatchAll(Fresh, RemoveAt(fed, i)) IN
                /\ other.pc = "idle"
                /\ other.dec.cnt_received_drops = dec.cnt_received_drops - 1
                /\ KnownSet(other.dec) = KnownSet(dec)
                /\ other.dec.unknown_chunks = dec.unknown_chunks
                /\ other.dec.data = dec.data
                /\ \A b \in DOMAIN dec.blocks : PendingValues(other, b) = PendingValues(Mach, b)

(* a pair caught twice, both pending, then peeled by a single              *)
C13_Witness ==
    /\ pc = "idle"
    /\ Len(fed) = 3
    /\ fed[1] = fed[2]
    /\ Len(CatchSample(dec, fed[1])) = 2
    /\ Len(CatchSample(dec, fed[3])) = 1
    /\ dec.unknown_chunks = 0
    /\ K = 2

(* C14: in every state, between the steps of process_droplet too, every   *)
(* droplet held by the worklist, by the running step or by a chunk list    *)
(* has data equal to the XOR of the true zero-padded chunks of its current *)
(* edges_idx; with no edge left its data is all zero.                      *)
C14_PendingXor ==
    \A id \in DOMAIN heap :
        /\ heap[id].data = XorOfChunks(enc.data, dec.blocksize, heap[id].edges_idx)
        /\ heap[id].edges_idx = <<>> => heap[id].data = Zeros(dec.blocksize)

(* in the middle of a drain: an older droplet just reduced to one edge and *)
(* put on the worklist, another one still waiting in the list              *)
C14_Witness ==
    /\ pc = "drain"
    /\ dec.blocks[fr.blk].edges # <<>>
    /\ \E id \in SeqSet(fr.drops) :
        /\ id < dec.cnt_received_drops
        /\ Len(heap[id].edges_idx) = 1
        /\ heap[id].edges_idx[1] # fr.blk
        /\ heap[id].data # Zeros(dec.blocksize)

(* the blocksize buffer bytes of chunk i                                   *)
BufferChunk(d, i) == SubSeq(d.data, d.blocksize * i + 1, d.blocksize * i + d.blocksize)

(* C15: in every state the buffer bytes of a known chunk equal the true    *)
(* zero-padded source chunk, and those of an unknown chunk are all zero.   *)
C15_KnownChunksTrue ==
    \A i \in DOMAIN dec.blocks :
        BufferChunk(dec, i) = IF dec.blocks[i].is_known
                              THEN PaddedChunk(enc.data, dec.blocksize, i)
                              ELSE Zeros(dec.blocksize)

(* inside a cascade: the partial last chunk resolved by a pending droplet *)
(* that the droplet of another chunk has just peeled                       *)
C15_Witness ==
    /\ pc = "drain"
    /\ enc.len % enc.blocksize # 0
    /\ enc.blocksize >= 2
    /\ K >= 2
    /\ dec.blocks[K - 1].is_known
    /\ fr.blk = K - 1
    /\ Len(cur.droptype.edges) = 1
    /\ cur.droptype.edges[1] # K - 1
    /\ fr.drop < dec.cnt_received_drops

(* C16: for arbitrary droplets, in every step a known chunk stays known    *)
(* and its buffer bytes stay as they are; the step that eliminates a known *)
(* edge XORs the buffer into the droplet.                                  *)
C16_WriteOnce ==
    [][\A d \in {dec'} : \A h \in {heap'} :
        /\ \A i \in DOMAIN dec.blocks :
             dec.blocks[i].is_known =>
                /\ d.blocks[i].is_known
                /\ BufferChunk(d, i) = BufferChunk(dec, i)
        /\ (pc = "stepA" /\ pc' = "stepA" /\ fr.edges # <<>>) =>
             (dec.blocks[Head(fr.edges)].is_known =>
                h[fr.drop].data =
                    XorInto(heap[fr.drop].data, dec.data,
                            dec.blocks[Head(fr.edges)].begin_at, dec.blocksize))
      ]_vars

(* a droplet of foreign data has just had its edge to a known chunk        *)
(* eliminated                                                              *)
C16_Witness ==
    /\ pc = "stepA"
    /\ fr.edges = <<>>
    /\ pre.dec.unknown_chunks < pre.dec.number_of_chunks
    /\ cur.droptype.edges = <<0>>
    /\ pre.dec.blocks[0].is_known
    /\ \E j \in 1..Len(cur.data) : cur.data[j] = JunkByte
    /\ heap[fr.drop].edges_idx = <<>>
    /\ heap[fr.drop].data # Zeros(dec.blocksize)

(* the droplets some chunk list refers to                                  *)
Pending(d) == UNION {SeqSet(d.blocks[i].edges) : i \in DOMAIN d.blocks}

(* C17: when catch has returned, no droplet in a chunk list has an edge to *)
(* a known chunk.                                                          *)
C17_NoEdgeToKnown ==
    pc = "idle" =>
        \A id \in Pending(dec) :
            \A j \in 1..Len(heap[id].edges_idx) :
                ~dec.blocks[heap[id].edges_idx[j]].is_known

(* a droplet of three chunks still pending after one of them was resolved  *)
C17_Witness ==
    /\ pc = "idle"
    /\ K = 3
    /\ dec.unknown_chunks = 2
    /\ \E id \in Pending(dec) :
        /\ id < dec.cnt_received_drops
        /\ Len(heap[id].edges_idx) = 2
        /\ Len(CatchSample(dec, fed[id])) = 3

(* C18: when catch has returned, the list of chunk i holds exactly the     *)
(* pending droplets whose edges_idx contains i, each once, and the list of *)
(* a known chunk is empty.                                                 *)
C18_ListsMirrorEdges ==
    pc = "idle" =>
        \A i \in DOMAIN dec.blocks :
            /\ Distinct(dec.blocks[i].edges)
            /\ SeqSet(dec.blocks[i].edges) =
                 {id \in DOMAIN heap : i \in SeqSet(heap[id].edges_idx)}
            /\ dec.blocks[i].is_known => dec.blocks[i].edges = <<>>

(* two pending droplets sharing both unknown chunks, one of them reduced   *)
(* when chunk 0 became known                                               *)
C18_Witness ==
    /\ pc = "idle"
    /\ K = 3
    /\ dec.blocks[0].is_known
    /\ Len(dec.blocks[1].edges) = 2
    /\ Len(dec.blocks[2].edges) = 2
    /\ \E id \in SeqSet(dec.blocks[1].edges) :
        Len(CatchSample(dec, fed[id])) > Len(heap[id].edges_idx)

(* the chunks a peeling decoder can know from a set of neighbour lists:    *)
(* a list with exactly one chunk outside the known set yields that chunk   *)
RECURSIVE PeelClosure(_, _)
PeelClosure(known, lists) ==
    IF \E l \in lists : Cardinality(SeqSet(l) \ known) = 1
    THEN LET l == CHOOSE x \in lists : Cardinality(SeqSet(x) \ known) = 1
         IN PeelClosure(known \cup SeqSet(l), lists)
    ELSE known

Busy == pc \notin {"idle", "panicked"}

(* C19: a running catch returns after finitely many steps; when it has     *)
(* returned every droplet left in a chunk list has at least two edges and  *)
(* the known chunks are all that peeling can recover from the droplets     *)
(* caught so far.                                                          *)
C19_PeelingTerminates ==
    /\ [](pc = "idle" =>
            /\ \A id \in Pending(dec) : Len(heap[id].edges_idx) >= 2
            /\ KnownSet(dec) =
                 PeelClosure({}, {CatchSample(dec, fed[i]) : i \in 1..Len(fed)}))
    /\ (Busy ~> pc = "idle")

(* a droplet that is on the worklist twice                                 *)
C19_Witness ==
    /\ pc = "pop"
    /\ ~Distinct(fr.drops)
    /\ dec.unknown_chunks = 0

(* C20: in every state, between the steps of process_droplet too,          *)
(* unknown_chunks is the number of unknown slots and lies in 0..K; a step  *)
(* never increases it, lowers it by at most one and only together with one *)
(* slot becoming known, and once it is 0 it stays 0.                       *)
C20_CounterConsistent ==
    /\ [](/\ dec.unknown_chunks = Cardinality(UnknownSlots(dec))
          /\ dec.unknown_chunks \in 0..dec.number_of_chunks)
    /\ [][\A d \in {dec'} :
            /\ d.unknown_chunks <= dec.unknown_chunks
            /\ d.unknown_chunks >= dec.unknown_chunks - 1
            /\ Cardinality(UnknownSlots(dec) \ UnknownSlots(d)) =
                 dec.unknown_chunks - d.unknown_chunks
            /\ UnknownSlots(d) \subseteq UnknownSlots(dec)
            /\ dec.unknown_chunks = 0 => d.unknown_chunks = 0
         ]_vars

(* an older droplet back from the worklist whose last chunk was resolved   *)
(* earlier in the same cascade: nothing is left for it to resolve          *)
C20_Witness ==
    /\ pc = "stepB"
    /\ fr.drop < dec.cnt_received_drops
    /\ heap[fr.drop].edges_idx = <<>>
    /\ Len(CatchSample(dec, fed[fr.drop])) = 2
    /\ dec.unknown_chunks = 0
    /\ ~hist.finished

====
